---- MODULE Spec2Model ----
(***************************************************************************)
(* Model of app.py, the Streamlit "OCL cross-section" viewer.              *)
(*                                                                         *)
(* The script is re-executed from top to bottom by the host each time a    *)
(* slider value changes.  The state is the five slider values, the figure  *)
(* last handed to st.pyplot, and two counters (slider changes, script      *)
(* runs).                                                                  *)
(*                                                                         *)
(* Numbers.  Python ints are integers (nanometres).  Python/NumPy floats   *)
(* are modelled as binary fixed-point numbers: the float f is the integer  *)
(* f * FP, and every float operation is the exact operation followed by    *)
(* rounding to the nearest multiple of 1/FP, as IEEE arithmetic rounds     *)
(* each operation to the nearest representable value.  Rounding is         *)
(* monotone and exact on representable values in both.                     *)
(***************************************************************************)
EXTENDS Integers, Sequences, FiniteSets

\* ------------------------------------------------------------------ floats
\* Number of fixed-point steps per unit (resolution of a modelled float).
FP == 32768

\* Result of np.sqrt on a negative argument.
NaN == -2000000000

\* int -> float
ToFP(n) == n * FP

\* n / d rounded to the nearest integer (d > 0), half rounded up.
RoundDiv(n, d) == (n + (d \div 2)) \div d

abs(p) ==
    LET mag[u \in Int] == IF u < 0 THEN -u ELSE u
    IN  mag[p]

\* Every arithmetic helper binds its operands once (a local function
\* applied to them), as Python evaluates an operand once.

\* float + float
fadd(p, q) ==
    LET add[u \in Int, v \in Int] == IF u = NaN \/ v = NaN THEN NaN ELSE u + v
    IN  add[p, q]

\* int * float (exact on the grid)
imul(n, q) ==
    LET mul[k \in Int, v \in Int] == IF v = NaN THEN NaN ELSE k * v
    IN  mul[n, q]

\* float * float: round(p * q / FP), on the integer and fractional parts of
\* the magnitudes so that no intermediate product leaves the 32-bit range
fmul(p, q) ==
    LET mag[u \in Int, v \in Int] ==
            (u \div FP) * (v \div FP) * FP + (u \div FP) * (v % FP)
            + (u % FP) * (v \div FP) + RoundDiv((u % FP) * (v % FP), FP)
        mul[u \in Int, v \in Int] ==
            IF (u < 0) = (v < 0) THEN mag[abs(u), abs(v)] ELSE -mag[abs(u), abs(v)]
    IN  mul[p, q]

\* float / n, for an integral divisor n (every divisor in the script is one)
fdiv(p, n) ==
    LET quo[u \in Int, d \in Int] == RoundDiv(u, d)
    IN  quo[p, n]

\* floor of the square root of n, by bisection on 0..FP
isqrt(n) ==
    LET bisect[m \in Int, lo \in Int, hi \in Int] ==
            IF lo >= hi THEN lo
            ELSE LET mid == (lo + hi + 1) \div 2
                 IN  IF mid * mid <= m THEN bisect[m, mid, hi]
                                       ELSE bisect[m, lo, mid - 1]
    IN  bisect[n, 0, FP]

\* np.sqrt on a float in [0, 1]: the fixed-point value nearest to
\* sqrt(v / FP); nan on a negative argument
np_sqrt(v) ==
    LET nearest[n \in Int, r \in Int] == IF n - r * r > r THEN r + 1 ELSE r
        root[w \in Int] == IF w < 0 THEN NaN ELSE nearest[w * FP, isqrt(w * FP)]
    IN  root[v]

\* np.linspace(start, stop, num): num floats, the last one set to stop
linspace(start, stop, num) ==
    LET space[lo \in Int, hi \in Int, n \in Int] ==
            [i \in 1..n |-> IF i = n THEN hi ELSE lo + (i - 1) * fdiv(hi - lo, n - 1)]
    IN  space[start, stop, num] \o <<>>

\* s[::-1]
Reversed(s) ==
    LET rev[q \in Seq(Int)] == [i \in 1..Len(q) |-> q[Len(q) + 1 - i]]
    IN  rev[s \o <<>>] \o <<>>

\* s[1:]
DropFirst(s) ==
    LET cut[q \in Seq(Int)] == SubSeq(q, 2, Len(q))
    IN  cut[s \o <<>>]

\* s[1:-1]
DropFirstLast(s) ==
    LET cut[q \in Seq(Int)] == SubSeq(q, 2, Len(q) - 1)
    IN  cut[s \o <<>>]

\* ------------------------------------------------------------------ sliders
min_value == 0
max_value == 1000
step == 20

value_ocl_height == 700
value_ocl_thickness == 400
value_horn_width == 240
value_horn_height == 250
value_horn_pitch == 320

\* The values a slider can emit: min_value + k * step up to max_value.
NumNotches == (max_value - min_value) \div step
SliderValue(k) == min_value + k * step

\* Notches the user drags each slider to (the extremes, the default, and
\* for the pitch a value that puts the outer horns off the lens footprint).
Notches ==
    [ocl_height    |-> {0, 35, 50},
     ocl_thickness |-> {0, 20, 50},
     horn_width    |-> {0, 12, 50},
     horn_height   |-> {0, 50},
     horn_pitch    |-> {0, 16, 26, 50}]

\* Cap on the number of slider changes in one session (the counters).
MaxChanges == 4

VARIABLES ocl_height, ocl_thickness, horn_width, horn_height, horn_pitch,
          displayed, changes, runs

vars == <<ocl_height, ocl_thickness, horn_width, horn_height, horn_pitch,
          displayed, changes, runs>>

\* ------------------------------------------------------------------ script
ocl_base_width == 1000
base_height == ocl_height
\* mutant: the footprint width taken for the half-width (the / 2 forgotten)
a_full == ToFP(ocl_base_width)

a == fdiv(ToFP(ocl_base_width), 2)

\* mutant: the test on line 30 without abs()
InDome_noabs(x_pos) == x_pos <= fdiv(ToFP(ocl_base_width), 2) /\ ocl_thickness > 0

\* the test on line 30
InDome(x_pos) == abs(x_pos) <= a /\ ocl_thickness > 0

\* the argument handed to np.sqrt on line 31: 1 - (x_pos/a)**2
SqrtArg(x_pos) ==
    LET one_minus_sq[u \in Int] == ToFP(1) - fmul(u, u)
    IN  one_minus_sq[fdiv(x_pos, a \div FP)]

\* mutant: the flattening ratio 1.05 applied to the dome height
ocl_surface_height_flattened(x_pos) ==
    LET dome[normalized_height \in Int] ==
            fadd(ToFP(base_height),
                 fdiv(imul(100 * ocl_thickness, normalized_height), 105))
        height[x \in Int] ==
            IF InDome(x) THEN dome[np_sqrt(SqrtArg(x))] ELSE ToFP(base_height)
    IN  height[x_pos]

ocl_surface_height(x_pos) ==
    LET dome[normalized_height \in Int] ==
            fadd(ToFP(base_height), imul(ocl_thickness, normalized_height))
        height[x \in Int] ==
            IF InDome(x) THEN dome[np_sqrt(SqrtArg(x))] ELSE ToFP(base_height)
    IN  height[x_pos]

\* mutant: the three horns laid out from the centre to the right
positions_shifted == <<0, horn_pitch, 2 * horn_pitch>>

positions == <<-horn_pitch, 0, horn_pitch>>

n_base_points == 50
n_side_points == 40
t_values == linspace(ToFP(0), ToFP(1), n_side_points)

horn_x_left(x_center) == ToFP(x_center) - fdiv(ToFP(horn_width), 2)
horn_x_right(x_center) == ToFP(x_center) + fdiv(ToFP(horn_width), 2)

\* x_base, y_base
horn_base(x_center) ==
    LET sample[x_base \in Seq(Int)] ==
            [x |-> x_base,
             y |-> [i \in 1..n_base_points |-> ocl_surface_height(x_base[i])] \o <<>>]
    IN  sample[linspace(horn_x_left(x_center), horn_x_right(x_center), n_base_points)]

\* mutant: the right curve's formula copied into the left curve
left_height_curve_copied(t) ==
    LET curve[s \in Int] == imul(horn_height, ToFP(1) - fmul(s, s))
    IN  curve[t]

\* horn_height * (1 - (1-t)**2)
left_height_curve(t) ==
    LET curve[s \in Int] == imul(horn_height, ToFP(1) - fmul(s, s))
    IN  curve[ToFP(1) - t]

\* mutant: the left curve's formula copied into the right curve
right_height_curve_copied(t) ==
    LET curve[s \in Int] == imul(horn_height, ToFP(1) - fmul(s, s))
    IN  curve[ToFP(1) - t]

\* mutant: a sign slip in the right curve
right_height_curve_signslip(t) ==
    LET curve[s \in Int] == imul(horn_height, ToFP(1) + fmul(s, s))
    IN  curve[t]

\* horn_height * (1 - t**2)
right_height_curve(t) ==
    LET curve[s \in Int] == imul(horn_height, ToFP(1) - fmul(s, s))
    IN  curve[t]

\* x_left_side, y_left_side
left_side(x_center) ==
    LET side[x_left \in Int, xc \in Int, ts \in Seq(Int)] ==
            LET point[x_current \in Int, t \in Int] ==
                    <<x_current,
                      fadd(ocl_surface_height(x_current), left_height_curve(t))>>
                pts[q \in Seq(Seq(Int))] ==
                    [x |-> [i \in 1..n_side_points |-> q[i][1]] \o <<>>,
                     y |-> [i \in 1..n_side_points |-> q[i][2]] \o <<>>]
            IN  pts[[i \in 1..n_side_points |->
                       point[x_left + fmul(xc - x_left, ts[i]), ts[i]]] \o <<>>]
    IN  side[horn_x_left(x_center), ToFP(x_center), t_values]

\* x_right_side, y_right_side
right_side(x_center) ==
    LET side[x_right \in Int, xc \in Int, ts \in Seq(Int)] ==
            LET point[x_current \in Int, t \in Int] ==
                    <<x_current,
                      fadd(ocl_surface_height(x_current), right_height_curve(t))>>
                pts[q \in Seq(Seq(Int))] ==
                    [x |-> [i \in 1..n_side_points |-> q[i][1]] \o <<>>,
                     y |-> [i \in 1..n_side_points |-> q[i][2]] \o <<>>]
            IN  pts[[i \in 1..n_side_points |->
                       point[xc + fmul(x_right - xc, ts[i]), ts[i]]] \o <<>>]
    IN  side[horn_x_right(x_center), ToFP(x_center), t_values]

Polyline == [x : Seq(Int), y : Seq(Int)]

create_horn_with_ocl_base(x_center) ==
    LET join[b \in Polyline, r \in Polyline, l \in Polyline] ==
            [x |-> b.x \o DropFirst(Reversed(r.x)) \o DropFirstLast(Reversed(l.x)),
             y |-> b.y \o DropFirst(Reversed(r.y)) \o DropFirstLast(Reversed(l.y))]
    IN  join[horn_base(x_center), right_side(x_center), left_side(x_center)]

\* the polygons passed to ax.fill in the loop over positions
horns == [i \in 1..Len(positions) |-> create_horn_with_ocl_base(positions[i])] \o <<>>

n_points == 500
x_lens == linspace(-a, a, n_points)

\* x_ocl_total, y_ocl_total
ocl_total ==
    [x |-> <<-a, -a>> \o x_lens \o <<a, a>>,
     y |-> <<ToFP(0), ToFP(base_height)>>
           \o ([i \in 1..n_points |-> ocl_surface_height(x_lens[i])] \o <<>>)
           \o <<ToFP(base_height), ToFP(0)>>]

margin == 100
\* mutant: the horn height left out of the total
total_height_nohorn == base_height + ocl_thickness
total_height == base_height + ocl_thickness + horn_height
y_bottom == -50
y_headroom == 150

xlim == <<-a - ToFP(margin), a + ToFP(margin)>>
ylim == <<ToFP(y_bottom), ToFP(total_height + y_headroom)>>

param_text == <<ocl_height, ocl_thickness, horn_width, horn_height, horn_pitch>>

\* One execution of the script: the figure handed to st.pyplot.
Figure ==
    [horns |-> horns, ocl |-> ocl_total, xlim |-> xlim, ylim |-> ylim,
     text |-> param_text]

\* ------------------------------------------------------------------ host
Init ==
    /\ ocl_height = value_ocl_height
    /\ ocl_thickness = value_ocl_thickness
    /\ horn_width = value_horn_width
    /\ horn_height = value_horn_height
    /\ horn_pitch = value_horn_pitch
    /\ displayed = Figure
    /\ changes = 0
    /\ runs = 1

\* mutant: the figure computed before the new slider value is stored
Rerun_stale ==
    /\ displayed' = Figure
    /\ changes' = changes + 1
    /\ runs' = runs + 1

\* The host re-executes the script with the new slider values and replaces
\* the displayed figure.
Rerun ==
    /\ displayed' = Figure'
    /\ changes' = changes + 1
    /\ runs' = runs + 1

SetOclHeight ==
    \E k \in Notches.ocl_height :
        /\ changes < MaxChanges
        /\ k \in 0..NumNotches
        /\ SliderValue(k) # ocl_height
        /\ ocl_height' = SliderValue(k)
        /\ UNCHANGED <<ocl_thickness, horn_width, horn_height, horn_pitch>>
        /\ Rerun

SetOclThickness ==
    \E k \in Notches.ocl_thickness :
        /\ changes < MaxChanges
        /\ k \in 0..NumNotches
        /\ SliderValue(k) # ocl_thickness
        /\ ocl_thickness' = SliderValue(k)
        /\ UNCHANGED <<ocl_height, horn_width, horn_height, horn_pitch>>
        /\ Rerun

SetHornWidth ==
    \E k \in Notches.horn_width :
        /\ changes < MaxChanges
        /\ k \in 0..NumNotches
        /\ SliderValue(k) # horn_width
        /\ horn_width' = SliderValue(k)
        /\ UNCHANGED <<ocl_height, ocl_thickness, horn_height, horn_pitch>>
        /\ Rerun

SetHornHeight ==
    \E k \in Notches.horn_height :
        /\ changes < MaxChanges
        /\ k \in 0..NumNotches
        /\ SliderValue(k) # horn_height
        /\ horn_height' = SliderValue(k)
        /\ UNCHANGED <<ocl_height, ocl_thickness, horn_width, horn_pitch>>
        /\ Rerun

SetHornPitch ==
    \E k \in Notches.horn_pitch :
        /\ changes < MaxChanges
        /\ k \in 0..NumNotches
        /\ SliderValue(k) # horn_pitch
        /\ horn_pitch' = SliderValue(k)
        /\ UNCHANGED <<ocl_height, ocl_thickness, horn_width, horn_height>>
        /\ Rerun

Next ==
    \/ SetOclHeight
    \/ SetOclThickness
    \/ SetHornWidth
    \/ SetHornHeight
    \/ SetHornPitch

Spec == Init /\ [][Next]_vars

\* ------------------------------------------------------------------ properties
Range(s) == {s[i] : i \in 1..Len(s)}

\* C1: after every slider change exactly one script run has completed and
\* the displayed figure is the figure of the current five slider values
\* (it replaces the previous one and carries no earlier value).
C1_DisplayedFigureIsCurrent ==
    /\ [](displayed = Figure /\ displayed.text = param_text /\ runs = changes + 1)
    /\ [][param_text' # param_text => (runs' = runs + 1 /\ displayed' = Figure')]_vars

\* C1 witness: three sliders have been moved in turn, one of them back to its
\* default, and the figure shown is the one of the values now set.
C1_Witness ==
    /\ changes = 3
    /\ ocl_thickness = 0
    /\ horn_pitch = value_horn_pitch
    /\ ocl_height = 1000
    /\ displayed.text = <<1000, 0, value_horn_width, value_horn_height, value_horn_pitch>>

\* C2: every slider value is an integer in [0, 1000] that is a multiple of 20.
C2_SliderDomain ==
    \A v \in Range(param_text) : v \in min_value..max_value /\ v % 20 = 0

\* Points of the figure on display.
HornIndex == 1..Len(displayed.horns)
Vertices(poly) == 1..Len(poly.x)

\* Every x at which the displayed pass evaluated ocl_surface_height.
EvaluatedXs ==
    UNION {Range(displayed.horns[h].x) : h \in HornIndex}
    \cup Range(displayed.ocl.x)
    \cup {ToFP(positions[h]) : h \in 1..Len(positions)}

FigureYs ==
    UNION {Range(displayed.horns[h].y) : h \in HornIndex} \cup Range(displayed.ocl.y)

\* C3: the render pass meets no error: the divisor a is not zero, np.sqrt is
\* only evaluated on arguments >= 0, and a complete figure (three horn
\* outlines and the lens outline, no nan in it) is on display.
C3_NoErrorState ==
    /\ a # 0
    /\ \A x \in EvaluatedXs : InDome(x) => SqrtArg(x) >= 0
    /\ Len(displayed.horns) = 3
    /\ Len(displayed.ocl.x) = n_points + 4
    /\ NaN \notin FigureYs

\* C3 witness: zero horn width and height, outer horns beyond the lens
\* footprint, and sqrt evaluated at the footprint edge (argument 0).
C3_Witness ==
    /\ horn_width = 0 /\ horn_height = 0 /\ horn_pitch > 500
    /\ ocl_thickness > 0
    /\ \E x \in EvaluatedXs : InDome(x) /\ SqrtArg(x) = 0
    /\ Len(displayed.horns) = 3

\* C4: the surface height is ocl_height at x = +500 and x = -500 and is
\* ocl_height + ocl_thickness at x = 0.
C4_SurfaceBoundary ==
    /\ ocl_surface_height(ToFP(500)) = ToFP(ocl_height)
    /\ ocl_surface_height(ToFP(-500)) = ToFP(ocl_height)
    /\ ocl_surface_height(ToFP(0)) = ToFP(ocl_height + ocl_thickness)

\* C4 witness: a dome of non-zero thickness, higher at the centre than at
\* the edges.
C4_Witness ==
    /\ ocl_thickness = 1000
    /\ ocl_surface_height(ToFP(0)) > ocl_surface_height(ToFP(500))

\* Positions probed by C5: those of the displayed pass, a 10 nm grid over
\* [-1500, 1500], and the first floats beyond the footprint edges.
ProbeXs ==
    EvaluatedXs \cup {ToFP(10 * n) : n \in -150..150}
    \cup {ToFP(500) + 1, -ToFP(500) - 1}

\* C5: the surface height is exactly ocl_height at every x when
\* ocl_thickness = 0, and at every x with |x| > 500 whatever the thickness.
C5_FlatOutsideDome ==
    \A x \in ProbeXs :
        (ocl_thickness = 0 \/ abs(x) > ToFP(500))
            => ocl_surface_height(x) = ToFP(ocl_height)

\* C5 witness: a thick dome with the outer horns off the footprint, where
\* the height inside the footprint differs from ocl_height.
C5_Witness ==
    /\ ocl_thickness = 1000
    /\ horn_pitch = 1000
    /\ \E x \in EvaluatedXs : abs(x) > ToFP(500)
    /\ \E x \in ProbeXs : ocl_surface_height(x) # ToFP(ocl_height)

\* C6: for each horn the left curve at t = 1 and the right curve at t = 0
\* are the same point: x = centre, y = surface height at the centre plus
\* horn_height.
C6_ApexContinuity ==
    \A h \in 1..Len(positions) :
        LET c == positions[h]
            l == left_side(c)
            r == right_side(c)
            apex == fadd(ocl_surface_height(ToFP(c)), ToFP(horn_height))
        IN  /\ t_values[n_side_points] = ToFP(1) /\ t_values[1] = ToFP(0)
            /\ l.x[n_side_points] = ToFP(c) /\ r.x[1] = ToFP(c)
            /\ l.y[n_side_points] = apex /\ r.y[1] = apex

\* C6 witness: horns of non-zero width and height away from the lens centre.
C6_Witness ==
    /\ horn_height = 1000 /\ horn_width = 1000 /\ horn_pitch = 320
    /\ left_side(-horn_pitch).y[n_side_points]
         = ocl_surface_height(ToFP(-horn_pitch)) + ToFP(1000)

\* C7: for each horn the left curve at t = 0 is (x_left, surface height at
\* x_left), the right curve at t = 1 is (x_right, surface height at x_right),
\* and they are the first and the last point of the 50-point base.
C7_BaseEndpoints ==
    \A h \in 1..Len(positions) :
        LET c == positions[h]
            l == left_side(c)
            r == right_side(c)
            b == horn_base(c)
            x_left == ToFP(c) - ToFP(horn_width) \div 2
            x_right == ToFP(c) + ToFP(horn_width) \div 2
        IN  /\ l.x[1] = x_left /\ l.y[1] = ocl_surface_height(x_left)
            /\ r.x[n_side_points] = x_right
            /\ r.y[n_side_points] = ocl_surface_height(x_right)
            /\ Len(b.x) = 50 /\ Len(b.y) = 50
            /\ b.x[1] = l.x[1] /\ b.y[1] = l.y[1]
            /\ b.x[50] = r.x[n_side_points] /\ b.y[50] = r.y[n_side_points]

\* C7 witness: a horn of non-zero height whose footprint straddles the lens
\* edge, so that its two base ends are at different heights.
C7_Witness ==
    /\ horn_height = 1000 /\ horn_width = 240 /\ horn_pitch = 520
    /\ ocl_thickness > 0
    /\ horn_base(horn_pitch).y[1] # horn_base(horn_pitch).y[50]

\* C8: a pass draws exactly three horns, centred at -horn_pitch, 0 and
\* +horn_pitch (the midpoints of their base footprints), mirrored about 0.
C8_ThreeHorns ==
    /\ Len(displayed.horns) = 3
    /\ Len(positions) = 3
    /\ \A h \in HornIndex :
          /\ displayed.horns[h].x[1] + displayed.horns[h].x[n_base_points]
               = 2 * ToFP(positions[h])
          /\ displayed.horns[h].x[n_base_points] - displayed.horns[h].x[1]
               = ToFP(horn_width)
    /\ positions[2] = 0
    /\ positions[1] = -horn_pitch /\ positions[3] = horn_pitch
    /\ positions[1] = -positions[3]

\* C8 witness: a non-zero pitch other than the default: three distinct
\* horn outlines.
C8_Witness ==
    /\ horn_pitch = 520
    /\ Cardinality(Range(displayed.horns)) = 3

\* the vertex of horn h above its centre, and its height
ApexHeight(h) == fadd(ocl_surface_height(ToFP(positions[h])), ToFP(horn_height))
HasApexVertex(h) ==
    \E j \in Vertices(displayed.horns[h]) :
        /\ displayed.horns[h].x[j] = ToFP(positions[h])
        /\ displayed.horns[h].y[j] = ApexHeight(h)
PeaksAtCentre(h) ==
    \A j \in Vertices(displayed.horns[h]) : displayed.horns[h].y[j] <= ApexHeight(h)

\* C9 as stated: every one of the three horn outlines has its highest
\* vertex above its centre, at surface height + horn_height.
C9_EveryHornPeaksAtCentre ==
    \A h \in HornIndex : HasApexVertex(h) /\ PeaksAtCentre(h)

\* C9 amended: every horn outline has the vertex above its centre at surface
\* height + horn_height and no vertex more than horn_height above the lens
\* surface at its own x; the horn centred at 0 has no vertex higher than
\* the one above its centre.
C9_CentreHornPeaksAtCentre ==
    /\ \A h \in HornIndex :
          /\ HasApexVertex(h)
          /\ \A j \in Vertices(displayed.horns[h]) :
                displayed.horns[h].y[j]
                  <= fadd(ocl_surface_height(displayed.horns[h].x[j]), ToFP(horn_height))
    /\ \A h \in HornIndex : positions[h] = 0 => PeaksAtCentre(h)

\* C9 witness: the default pitch, a thick dome and a short horn: the centre
\* horn peaks at its centre while an outer horn has a higher vertex nearer
\* the lens centre.
C9_Witness ==
    /\ horn_pitch = 320 /\ ocl_thickness = 1000 /\ horn_height > 0
    /\ PeaksAtCentre(2)
    /\ ~PeaksAtCentre(1)

\* C10: every vertex of the lens and horn outlines has 0 <= y <= ocl_height +
\* ocl_thickness + horn_height, every horn vertex is at or above the lens
\* surface at its x, and so every vertex is strictly inside the vertical
\* view bounds (-50, that sum + 150).
C10_WithinVerticalBounds ==
    /\ \A y \in FigureYs :
          /\ ToFP(0) <= y
          /\ y <= ToFP(ocl_height + ocl_thickness + horn_height)
          /\ displayed.ylim[1] < y /\ y < displayed.ylim[2]
    /\ displayed.ylim = <<ToFP(-50), ToFP(ocl_height + ocl_thickness + horn_height + 150)>>
    /\ \A h \in HornIndex : \A j \in Vertices(displayed.horns[h]) :
          displayed.horns[h].y[j] >= ocl_surface_height(displayed.horns[h].x[j])

\* C10 witness: all three heights at their maximum: the centre horn's apex
\* is at the top of the allowed range.
C10_Witness ==
    /\ ocl_height = 1000 /\ ocl_thickness = 1000 /\ horn_height = 1000
    /\ ToFP(3000) \in FigureYs

====
